---- MODULE Spec2Model ----
(***************************************************************************)
(* Post-synaptic event history buffers of the STDP firmware and their      *)
(* garbage collector (post_events.h, spinn_gc.h).                          *)
(*                                                                         *)
(* Memory is modelled word by word.  Pointers are byte addresses, as in    *)
(* the C code; mem is indexed by word number (address / 4).  The build     *)
(* modelled is the one whose post_trace_t is one word wide, so that an     *)
(* event stride is two words and every pointer stays word aligned.         *)
(***************************************************************************)
EXTENDS Integers, Sequences, FiniteSets, TLC

(***************************************************************************)
(* Program constants                                                       *)
(***************************************************************************)
MAX_POST_SYNAPTIC_EVENTS == 4
EXTRA_HISTORY_TRACE_SPACE_FACTOR == 3
COMPACTOR_FRAGMENTATION_FACTOR == 4

SizeofUint32 == 4
SizeofPostTrace == 4

\* while (TRACE_SIZE % 4 != 0) TRACE_SIZE++;
WordAlign(x) == x + ((4 - (x % 4)) % 4)
TRACE_SIZE == WordAlign(SizeofPostTrace + SizeofUint32)

U16(x) == x % 65536

\* A 32 bit word is kept as the signed integer with the same bits; uint32_t
\* values are compared as unsigned numbers (a set top bit is the larger).
ULess(a, b) == IF (a < 0) = (b < 0) THEN a < b ELSE b < 0

\* addr[0] = -1 stores 0xFFFFFFFF
Sentinel == -1

\* the address spin1_malloc returns for post_event_data (non-NULL)
StartAddress == 1024

(***************************************************************************)
(* Bounds of the model                                                     *)
(***************************************************************************)
\* the arena of Spec is built for N_NEURONS neurons
N_NEURONS == 4
MaxTime == 3
\* an append is at most MaxTimeStep ticks after the newest event of its buffer
MaxTimeStep == 1
MaxAppends == 5
MaxScans == 1
MaxCompactions == 3
\* the arena of SpecWide is built for N_NEURONS_WIDE neurons
N_NEURONS_WIDE == 16
MaxAppendsWide == 3
MaxCompactionsWide == 4
\* words of heap modelled past the end of the arena
HeapMargin == 8
\* an arena whose sweeps complete: neurons, appends and compaction calls
N_NEURONS_SWEEP == 8
MaxAppendsSweep == 3
MaxCompactionsSweep == 5
MaxAppendsAfterSweep == 7
\* calls under interrupts: neurons, appends, compactions, and spike
\* interrupts taken while a call is in progress
N_NEURONS_IRQ == 2
MaxAppendsIrq == 5
MaxCompactionsIrq == 2
MaxNestedIrq == 1
\* the buffer of incoming spikes: its size, and the spikes added
MaxRingSize == 4
MaxRingAdds == 4
\* initialisation: neurons, and appends after it
MaxNeuronsBoot == 4
\* initialisation of large populations: the neuron counts from the first one
\* whose arena is larger than 65535 bytes
MinNeuronsLarge == 1171
MaxNeuronsLarge == 1174
MaxAppendsBoot == 1
\* the Poisson source: slow and fast sources, timer ticks, calls of
\* timer2_callback in one tick, and callbacks that find nothing to do
MaxSlowSources == 2
MaxFastSources == 2
MaxTicks == 2
MaxTimer2Calls == 5
MaxReent == 1
\* the smallest arena explored: neurons and appends
N_NEURONS_SMALL == 2
MaxAppendsSmall == 8

\* values an uninitialised word of the heap may hold
UninitVals == {0, Sentinel}

\* synthetic payloads are tagged with their timestamp
TraceOf(time) == 100 + time
\* timing_get_initial_post_trace()
InitialTrace == TraceOf(0)

VARIABLES
    post_event_buffers,  \* start_address, size, n_neurons, end_of_last_buffer
    buffers,             \* post_event_history_t per neuron
    mem,                 \* word number -> 32 bit value
    cursor,              \* the statics of compact_post_traces
    generations,         \* times each buffer was put in the generation index
    status,              \* "run", or "spin" once the loop after the transfer cannot end
    last,                \* the last call and its outcome
    calls,               \* number of calls made (bounded)
    boot,                \* post_events_init_buffers: allocations and result
    cpu,                 \* interrupt mask, where an interrupted call stands, DMA transfer
    ring,                \* in_spikes.c: the buffer of incoming spikes
    poisson              \* spike_source_poisson.c: the statics of the Poisson source

vars ==
    <<post_event_buffers, buffers, mem, cursor, generations, status, last, calls, boot, cpu,
      ring, poisson>>

(***************************************************************************)
(* Memory                                                                  *)
(***************************************************************************)
W(addr) == addr \div 4

ArenaSize(n) == U16(n * (MAX_POST_SYNAPTIC_EVENTS + EXTRA_HISTORY_TRACE_SPACE_FACTOR) * TRACE_SIZE)

\* one word in front of the arena (the end of the heap block header) up to
\* HeapMargin words behind it
MemWords(n) == (W(StartAddress) - 1) .. (W(StartAddress + ArenaSize(n)) + HeapMargin - 1)

InMem(m, w) == w \in DOMAIN m

Store(m, addr, v) == IF InMem(m, W(addr)) THEN [m EXCEPT ![W(addr)] = v] ELSE m

Load(m, addr) == m[W(addr)]

RECURSIVE CopyWords(_, _, _, _, _)
CopyWords(m, dest, src, k, n) ==
    IF k >= n THEN m
    ELSE CopyWords(Store(m, dest + 4 * k, Load(m, src + 4 * k)), dest, src, k + 1, n)

\* n bytes are converted to words, then copied in ascending address order
sark_block_copy(m, dest, src, n) ==
    LET words == IF n % 4 # 0 THEN (n \div 4) + (n % 4) ELSE n \div 4
    IN  CopyWords(m, dest, src, 0, words)

(***************************************************************************)
(* Reading a buffer                                                        *)
(***************************************************************************)
Count(b) == b.count_minus_one + 1
TimeAt(m, b, i) == Load(m, b.times + SizeofUint32 * i)
TraceAt(m, b, i) == Load(m, b.traces + SizeofPostTrace * i)
Times(m, b) == [i \in 1 .. Count(b) |-> TimeAt(m, b, i - 1)]
Traces(m, b) == [i \in 1 .. Count(b) |-> TraceAt(m, b, i - 1)]

(***************************************************************************)
(* post_events_init_buffers                                                *)
(***************************************************************************)
HistoryAt_TimesStride(n, data) ==
    [i \in 0 .. n - 1 |->
        LET t == data + i * MAX_POST_SYNAPTIC_EVENTS * SizeofUint32
        IN  [count_minus_one |-> 0,
             times |-> t,
             traces |-> t + MAX_POST_SYNAPTIC_EVENTS * SizeofUint32,
             size |-> U16(MAX_POST_SYNAPTIC_EVENTS * TRACE_SIZE)]]

\* the headers as the two loops of post_events_init_buffers leave them, the
\* data block being at address data
HistoryAt(n, data) ==
    [i \in 0 .. n - 1 |->
        LET t == data + i * MAX_POST_SYNAPTIC_EVENTS * TRACE_SIZE
        IN  [count_minus_one |-> 0,
             times |-> t,
             traces |-> t + MAX_POST_SYNAPTIC_EVENTS * SizeofUint32,
             size |-> U16(MAX_POST_SYNAPTIC_EVENTS * TRACE_SIZE)]]

InitHistory(n) == HistoryAt(n, StartAddress)

InitArena(n) ==
    [start_address |-> StartAddress,
     n_neurons |-> n,
     size |-> ArenaSize(n),
     end_of_last_buffer |-> StartAddress + n * MAX_POST_SYNAPTIC_EVENTS * TRACE_SIZE]

InitMem(n, fill) ==
    LET h == InitHistory(n)
    IN  [w \in MemWords(n) |->
            IF \E i \in 0 .. n - 1 : w = W(h[i].times) THEN 0
            ELSE IF \E i \in 0 .. n - 1 : w = W(h[i].traces) THEN InitialTrace
            ELSE fill]

\* post_events_init_buffers(n): alloc says which of the allocations succeed
\* (a failed one returns NULL, address 0).  The result holds what the call
\* returns (result), whether log_error ran (reported), the header fields
\* written through a NULL header pointer (header_stray, loop at lines 67-71)
\* and the placeholder fields written through pointers computed from a NULL
\* data pointer (placeholder_stray, loop at lines 90-98).  The test at line
\* 84 reads post_event_data after the first loop has advanced it.
post_events_init_buffers(n, alloc, fill) ==
    LET post_event_data == IF alloc.data THEN StartAddress ELSE 0
        pb == [start_address |-> post_event_data,
               n_neurons |-> n,
               size |-> ArenaSize(n),
               end_of_last_buffer |-> post_event_data + n * MAX_POST_SYNAPTIC_EVENTS * TRACE_SIZE]
        data_after_loop == post_event_data + n * MAX_POST_SYNAPTIC_EVENTS * TRACE_SIZE
        is_null == ~alloc.history \/ data_after_loop = 0 \/ ~alloc.extra
    IN  IF is_null
        THEN [result |-> "null", reported |-> TRUE,
              header_stray |-> IF alloc.history THEN 0 ELSE 2 * n,
              placeholder_stray |-> 0,
              pb |-> pb, buffers |-> << >>,
              mem |-> IF alloc.data THEN [w \in MemWords(n) |-> fill] ELSE << >>]
        ELSE [result |-> "ok", reported |-> FALSE,
              header_stray |-> 0,
              placeholder_stray |-> IF alloc.data THEN 0 ELSE 2 * n,
              pb |-> pb, buffers |-> HistoryAt(n, post_event_data),
              mem |-> IF alloc.data THEN InitMem(n, fill) ELSE << >>]

(***************************************************************************)
(* extend_hist_trace_buffer                                                *)
(***************************************************************************)
\* for (i = count_minus_one; i >= 0; i--) traces[i + 4/sizeof(post_trace_t)] = traces[i]
RECURSIVE MoveTracesDown(_, _, _)
MoveTracesDown(m, traces, i) ==
    IF i < 0 THEN m
    ELSE MoveTracesDown(
            Store(m, traces + SizeofPostTrace * (i + (SizeofUint32 \div SizeofPostTrace)),
                  Load(m, traces + SizeofPostTrace * i)),
            traces, i - 1)

\* a variant that measures the arena without the extra space behind the
\* initial buffers
NoSpaceToExtend_NoExtraSpace(pb, b) ==
    pb.start_address + pb.n_neurons * MAX_POST_SYNAPTIC_EVENTS * TRACE_SIZE
        <= pb.end_of_last_buffer + b.size + TRACE_SIZE

NoSpaceToExtend(pb, b) ==
    pb.start_address + pb.size <= pb.end_of_last_buffer + b.size + TRACE_SIZE

\* a variant that takes every buffer below the frontier for the last one
AtEndOfLastBuffer_AnyBelow(pb, b) == b.times + b.size <= pb.end_of_last_buffer

AtEndOfLastBuffer(pb, b) == b.times + b.size = pb.end_of_last_buffer

\* returns the outcome (ok), whether the buffer was copied (moved), and the
\* memory, buffer headers and arena after the call
extend_hist_trace_buffer(m, bufs, pb, n) ==
    LET b == bufs[n]
    IN  IF NoSpaceToExtend(pb, b)
        THEN [ok |-> FALSE, moved |-> FALSE, mem |-> m, buffers |-> bufs, pb |-> pb]
        ELSE
            LET moved == ~AtEndOfLastBuffer(pb, b)
                m1 == IF moved
                      THEN sark_block_copy(m, pb.end_of_last_buffer, b.times, b.size)
                      ELSE m
                traces_offset == b.traces - b.times
                times1 == IF moved THEN pb.end_of_last_buffer ELSE b.times
                traces1 == IF moved THEN pb.end_of_last_buffer + traces_offset ELSE b.traces
                m2 == IF SizeofPostTrace # 0
                      THEN MoveTracesDown(m1, traces1, b.count_minus_one)
                      ELSE m1
                size2 == U16(b.size + TRACE_SIZE)
                b2 == [b EXCEPT !.times = times1,
                                !.traces = traces1 + SizeofUint32,
                                !.size = size2]
            IN  [ok |-> TRUE, moved |-> moved, mem |-> m2,
                 buffers |-> [bufs EXCEPT ![n] = b2],
                 pb |-> [pb EXCEPT !.end_of_last_buffer = times1 + size2]]

(***************************************************************************)
(* post_events_add                                                         *)
(***************************************************************************)
\* a variant that forgets the + 1: times + count_minus_one == traces
Saturated_CountMinusOne(b) == b.times + SizeofUint32 * b.count_minus_one = b.traces

\* events->times + events->count_minus_one + 1 == events->traces
Saturated(b) == b.times + SizeofUint32 * (b.count_minus_one + 1) = b.traces

\* for (e = 2; e <= count_minus_one; e++) { times[e-1] = times[e]; traces[e-1] = traces[e]; }
RECURSIVE ShuffleDown(_, _, _)
ShuffleDown(m, b, e) ==
    IF e > b.count_minus_one THEN m
    ELSE LET m1 == Store(m, b.times + SizeofUint32 * (e - 1), TimeAt(m, b, e))
             m2 == Store(m1, b.traces + SizeofPostTrace * (e - 1), TraceAt(m1, b, e))
         IN  ShuffleDown(m2, b, e + 1)

post_events_add(m, bufs, pb, n, time, trace) ==
    LET sat == Saturated(bufs[n])
        ext == IF sat THEN extend_hist_trace_buffer(m, bufs, pb, n)
               ELSE [ok |-> TRUE, moved |-> FALSE, mem |-> m, buffers |-> bufs, pb |-> pb]
        shift_elements == sat /\ ~ext.ok
        b == ext.buffers[n]
    IN  IF ~shift_elements
        THEN LET new_index == b.count_minus_one + 1
                 b2 == [b EXCEPT !.count_minus_one = new_index]
                 m1 == Store(ext.mem, b.times + SizeofUint32 * new_index, time)
                 m2 == Store(m1, b.traces + SizeofPostTrace * new_index, trace)
             IN  [path |-> IF ~sat THEN "fast" ELSE IF ext.moved THEN "moved" ELSE "grown",
                  mem |-> m2, buffers |-> [ext.buffers EXCEPT ![n] = b2], pb |-> ext.pb]
        ELSE LET m1 == ShuffleDown(ext.mem, b, 2)
                 m2 == Store(m1, b.times + SizeofUint32 * b.count_minus_one, time)
                 m3 == Store(m2, b.traces + SizeofPostTrace * b.count_minus_one, trace)
             IN  [path |-> "shift", mem |-> m3, buffers |-> ext.buffers, pb |-> ext.pb]

(***************************************************************************)
(* scan_history_traces                                                     *)
(***************************************************************************)
\* for (j = 0; j < count_minus_one; j++) if (times[j] < oldest_time) recycled++; else break;
RECURSIVE RecycledTraces(_, _, _, _)
RecycledTraces(m, b, j, oldest_time) ==
    IF j < b.count_minus_one /\ ULess(TimeAt(m, b, j), oldest_time)
    THEN RecycledTraces(m, b, j + 1, oldest_time)
    ELSE j

\* a variant that stops one trace short: i < count_minus_one - recycled
RECURSIVE DropTraces_StopsOneShort(_, _, _, _)
DropTraces_StopsOneShort(m, b, recycled, i) ==
    IF i >= b.count_minus_one - recycled THEN m
    ELSE DropTraces_StopsOneShort(
            Store(m, b.traces + SizeofPostTrace * i, TraceAt(m, b, i + recycled)),
            b, recycled, i + 1)

\* for (i = 0; i <= count_minus_one - recycled; i++) traces[i] = traces[i + recycled]
RECURSIVE DropTraces(_, _, _, _)
DropTraces(m, b, recycled, i) ==
    IF i > b.count_minus_one - recycled THEN m
    ELSE DropTraces(Store(m, b.traces + SizeofPostTrace * i, TraceAt(m, b, i + recycled)),
                    b, recycled, i + 1)

RECURSIVE ScanFrom(_, _, _, _, _)
ScanFrom(m, bufs, n_neurons, i, oldest_time) ==
    IF i >= n_neurons THEN [mem |-> m, buffers |-> bufs]
    ELSE LET b == bufs[i]
             recycled == RecycledTraces(m, b, 0, oldest_time)
         IN  IF recycled = 0
             THEN ScanFrom(m, bufs, n_neurons, i + 1, oldest_time)
             ELSE LET m1 == DropTraces(m, b, recycled, 0)
                      b2 == [b EXCEPT !.times = b.times + SizeofUint32 * recycled,
                                      !.size = U16(b.size - recycled * TRACE_SIZE),
                                      !.count_minus_one = b.count_minus_one - recycled]
                  IN  ScanFrom(m1, [bufs EXCEPT ![i] = b2], n_neurons, i + 1, oldest_time)

scan_history_traces(m, bufs, pb, oldest_time) ==
    ScanFrom(m, bufs, pb.n_neurons, 0, oldest_time)

(***************************************************************************)
(* compact_post_traces                                                     *)
(***************************************************************************)
\* the words sark_block_copy reads from a buffer into the SDRAM work space
BufferWords(m, b) ==
    LET words == IF b.size % 4 # 0 THEN (b.size \div 4) + (b.size % 4) ELSE b.size \div 4
    IN  [k \in 1 .. words |-> Load(m, b.times + 4 * (k - 1))]

\* times >= start_addr & times <= end_addr
InRegion(b, start_addr, end_addr) == b.times >= start_addr /\ b.times <= end_addr

\* the loop over the neurons: buffers of the region are copied to SDRAM one
\* after the other and their pointers set to where they will land
RECURSIVE CopyLiveObjects(_, _, _, _, _, _, _, _)
CopyLiveObjects(m, bufs, n_neurons, i, start_addr, end_addr, dest, sdram) ==
    IF i >= n_neurons THEN [buffers |-> bufs, sdram |-> sdram]
    ELSE LET b == bufs[i]
         IN  IF InRegion(b, start_addr, end_addr)
             THEN LET overall_size == 4 * Len(sdram)
                      traces_offset == b.traces - b.times
                      b2 == [b EXCEPT !.times = dest + overall_size,
                                      !.traces = dest + overall_size + traces_offset]
                  IN  CopyLiveObjects(m, [bufs EXCEPT ![i] = b2], n_neurons, i + 1,
                                      start_addr, end_addr, dest, sdram \o BufferWords(m, b))
             ELSE CopyLiveObjects(m, bufs, n_neurons, i + 1, start_addr, end_addr, dest, sdram)

\* spin1_dma_transfer(2, init_address, dest, DMA_READ, overall_size): the
\* staged words are written to the words from dest on (source and
\* destination are different memories, so the order of the words is immaterial)
DmaRead(m, dest, sdram) ==
    [w \in DOMAIN m |->
        IF w >= W(dest) /\ w < W(dest) + Len(sdram) THEN sdram[w - W(dest) + 1] ELSE m[w]]

\* the region moves on by its end only
NextRegion_EndOnly(cur, pb) ==
    LET step == pb.size \div COMPACTOR_FRAGMENTATION_FACTOR
    IN  IF cur.start_addr = 0
        THEN [start_addr |-> pb.start_address,
              end_addr |-> pb.start_address + step,
              end_of_last_compaction_address |-> pb.start_address]
        ELSE [cur EXCEPT !.end_addr = cur.end_addr + step]

\* start_addr == 0 starts a sweep at the start of the arena, otherwise the
\* region moves on by size / COMPACTOR_FRAGMENTATION_FACTOR
NextRegion(cur, pb) ==
    LET step == pb.size \div COMPACTOR_FRAGMENTATION_FACTOR
    IN  IF cur.start_addr = 0
        THEN [start_addr |-> pb.start_address,
              end_addr |-> pb.start_address + step,
              end_of_last_compaction_address |-> pb.start_address]
        ELSE [cur EXCEPT !.start_addr = cur.start_addr + step,
                         !.end_addr = cur.end_addr + step]

\* end_addr >= end_of_last_buffer
SweepDone(cur, pb) == cur.end_addr >= pb.end_of_last_buffer

\* the loop as its comment has it: the marked word is loaded
MarkUnchanged_MarkedWord(m, addr) == Load(m, addr) = Sentinel

\* the loop LDR r3, %[mark]; CMN r3, #1; BEQ loop goes round once more.  Its
\* operand is [mark] "m" (addr): the memory operand is the variable addr, so
\* the word loaded is the pointer, not the marked word of m it points to
MarkUnchanged(m, addr) == addr = Sentinel

\* no transfer is queued or running in the DMA controller
NoTransfer == [dest |-> 0, words |-> << >>]

\* complete: the transfer has written its last word when the loop first loads
\* its operand.  A loop that goes round does so until the transfer is complete;
\* a call that returns before leaves the transfer to the DMA controller.
compact_post_traces(m, bufs, pb, cur, complete) ==
    LET region == NextRegion(cur, pb)
        dest == region.end_of_last_compaction_address
        live == CopyLiveObjects(m, bufs, pb.n_neurons, 0, region.start_addr,
                                region.end_addr, dest, << >>)
        overall_size == 4 * Len(live.sdram)
        addr == dest + overall_size - 4
        m1 == Store(m, addr, Sentinel)
        m2 == DmaRead(m1, dest, live.sdram)
        waited == complete \/ overall_size = 0 \/ MarkUnchanged(m1, addr)
    IN  IF waited /\ MarkUnchanged(m2, addr)
        THEN [returns |-> FALSE, done |-> FALSE, moved |-> overall_size,
              mem |-> m2, buffers |-> live.buffers, pb |-> pb, cursor |-> region,
              dma |-> NoTransfer]
        ELSE LET cur2 == [region EXCEPT !.end_of_last_compaction_address = dest + overall_size]
                 done == SweepDone(cur2, pb)
             IN  [returns |-> TRUE, done |-> done, moved |-> overall_size,
                  mem |-> IF waited THEN m2 ELSE m1, buffers |-> live.buffers,
                  pb |-> IF done
                         THEN [pb EXCEPT !.end_of_last_buffer = cur2.end_of_last_compaction_address]
                         ELSE pb,
                  cursor |-> IF done THEN [cur2 EXCEPT !.start_addr = 0] ELSE cur2,
                  dma |-> IF waited THEN NoTransfer ELSE [dest |-> dest, words |-> live.sdram]]

(***************************************************************************)
(* post_events_get_window                                                  *)
(***************************************************************************)
\* do { next_time = event_time--; } while (*event_time > begin_time && event_time != times)
\* event_time is an address; the result is the address event_time ends at
RECURSIVE WindowWalk(_, _, _, _)
WindowWalk(m, b, event_time, begin_time) ==
    LET e == event_time - SizeofUint32
    IN  IF ULess(begin_time, Load(m, e)) /\ e # b.times
        THEN WindowWalk(m, b, e, begin_time)
        ELSE e

post_events_get_window(m, b, begin_time) ==
    LET count == b.count_minus_one + 1
        end_event_time == b.times + SizeofUint32 * count
        end_event_trace == b.traces + SizeofPostTrace * count
        event_time == WindowWalk(m, b, end_event_time, begin_time)
        next_time == event_time + SizeofUint32
        num_events == (end_event_time - next_time) \div SizeofUint32
        next_trace == end_event_trace - SizeofPostTrace * num_events
    IN  [prev_time |-> Load(m, event_time),
         prev_trace |-> Load(m, next_trace - SizeofPostTrace),
         next_time |-> next_time,
         next_trace |-> next_trace,
         num_events |-> num_events]

(***************************************************************************)
(* The state machine                                                       *)
(***************************************************************************)
(* post_events_get_window_delayed                                          *)
(***************************************************************************)

\* the do-while loop: event_time and end_event_time are addresses; the result
\* holds the addresses they end at
RECURSIVE DelayedWindowWalk(_, _, _, _, _, _)
DelayedWindowWalk(m, b, event_time, end_event_time, begin_time, end_time) ==
    LET next_time == event_time
        e == event_time - SizeofUint32
        end == IF ULess(end_time, Load(m, e)) THEN next_time ELSE end_event_time
    IN  IF ULess(begin_time, Load(m, e)) /\ e # b.times
        THEN DelayedWindowWalk(m, b, e, end, begin_time, end_time)
        ELSE [event_time |-> e, end_event_time |-> end]

post_events_get_window_delayed(m, b, begin_time, end_time) ==
    LET count == b.count_minus_one + 1
        walk == DelayedWindowWalk(m, b, b.times + SizeofUint32 * count,
                                  b.times + SizeofUint32 * count, begin_time, end_time)
        next_time == walk.event_time + SizeofUint32
        num_events == (walk.end_event_time - next_time) \div SizeofUint32
        end_event_trace == b.traces + SizeofPostTrace * count
        next_trace == end_event_trace - SizeofPostTrace * num_events
    IN  [prev_time |-> Load(m, walk.event_time),
         prev_trace |-> Load(m, next_trace - SizeofPostTrace),
         next_time |-> next_time,
         next_trace |-> next_trace,
         num_events |-> num_events]

(***************************************************************************)
Neurons == 0 .. post_event_buffers.n_neurons - 1

\* neurons that fire in the runs explored: the first and the last one (Spec),
\* the last two (SpecWide)
FirstAndLast == {n \in Neurons : n = 0 \/ n = post_event_buffers.n_neurons - 1}
LastTwo == {n \in Neurons : n >= post_event_buffers.n_neurons - 2}

\* the newest time a buffer holds
NewestTime(n) == TimeAt(mem, buffers[n], buffers[n].count_minus_one)

\* times an append to buffer n may carry: not older than its newest event
SpikeTimes(n) ==
    {time \in 0 .. MaxTime :
        /\ ~ULess(time, NewestTime(n))
        /\ ~ULess(NewestTime(n) + MaxTimeStep, time)}

NoCall == [op |-> "init", n |-> 0, arg |-> 0, path |-> "none", run |-> 0]

(***************************************************************************)
(* post_events_next, post_events_next_delayed                              *)
(***************************************************************************)
\* window.prev_time = *window.next_time++; window.prev_trace = *window.next_trace++;
\* window.num_events--  (num_events is a uint32_t, kept as a signed word)
post_events_next(m, window) ==
    [window EXCEPT !.prev_time = Load(m, window.next_time),
                   !.next_time = window.next_time + SizeofUint32,
                   !.prev_trace = Load(m, window.next_trace),
                   !.next_trace = window.next_trace + SizeofPostTrace,
                   !.num_events = window.num_events - 1]

\* window.prev_time = delayed_time; window.prev_trace = *window.next_trace++;
\* window.next_time++; window.num_events--
post_events_next_delayed(m, window, delayed_time) ==
    [window EXCEPT !.prev_time = delayed_time,
                   !.next_time = window.next_time + SizeofUint32,
                   !.prev_trace = Load(m, window.next_trace),
                   !.next_trace = window.next_trace + SizeofPostTrace,
                   !.num_events = window.num_events - 1]

\* the caller's loop, while (window.num_events > 0) window = post_events_next(window):
\* the windows it goes through, the first one apart
RECURSIVE NextWindows(_, _)
NextWindows(m, window) ==
    IF window.num_events = 0 THEN << >>
    ELSE <<post_events_next(m, window)>> \o NextWindows(m, post_events_next(m, window))


\* in_spikes.c before in_spikes_initialize_spike_buffer is called
NoBuffer ==
    [state |-> "none", checked |-> FALSE, buffer_size |-> 0, buffer |-> << >>,
     input |-> 0, output |-> 0, overflows |-> 0, underflows |-> 0,
     added |-> 0, pending |-> << >>, op |-> "none", success |-> FALSE,
     got |-> 0, want |-> 0, accepted |-> << >>, received |-> << >>, pc |-> "idle",
     get_success |-> FALSE]

\* spike_source_poisson.c before c_main has run: the statics as they are
\* initialised, with the sources visited since the tick began (visited), the
\* spikes set in out_spikes, and the last callback (op)
NotLoaded ==
    [state |-> "none", num_slow_spike_sources |-> 0, num_fast_spike_sources |-> 0,
     time |-> 0, timer_running |-> FALSE, on_slow_sources |-> FALSE, source_index |-> 0,
     next_slow_spike_source |-> 0, next_fast_spike_source |-> 0,
     timer_2_enabled |-> FALSE, n_timer1_reent |-> 0, n_timer2_reent |-> 0,
     simulation_ticks |-> 0, visited |-> << >>, finished |-> 0, out_spikes |-> {},
     op |-> "none"]

\* no call is in progress, interrupts are enabled, the DMA controller is idle
Idle ==
    [masked |-> FALSE, pc |-> "idle", n |-> 0, time |-> 0, moved |-> FALSE,
     sdram |-> << >>, nested |-> 0, dma |-> NoTransfer]

\* the four allocations of post_events_init_buffers
Regions == {"history", "data", "extra", "sdram"}

\* post_events_init_buffers has returned the headers, every allocation made
Booted ==
    [alloc |-> [r \in Regions |-> TRUE], result |-> "ok", reported |-> FALSE,
     header_stray |-> 0, placeholder_stray |-> 0]

InitFor(n, fill) ==
    /\ post_event_buffers = InitArena(n)
    /\ buffers = InitHistory(n)
    /\ mem = InitMem(n, fill)
    /\ cursor = [start_addr |-> 0, end_addr |-> 0, end_of_last_compaction_address |-> 0]
    /\ generations = [i \in 0 .. n - 1 |-> 0]
    /\ status = "run"
    /\ last = NoCall
    /\ calls = [add |-> 0, scan |-> 0, compact |-> 0]
    /\ boot = Booted
    /\ cpu = Idle
    /\ ring = NoBuffer
    /\ poisson = NotLoaded

Init == \E fill \in UninitVals : InitFor(N_NEURONS, fill)

\* post_events_add(time, &buffers[n], trace) and what it leaves behind
\* a transfer of the DMA controller lasts no longer than the first call that
\* follows the compact_post_traces that issued it
TransferInTime == cpu.dma = NoTransfer \/ last.op = "compact"

AddStep(n, time, trace) ==
    \E r \in {post_events_add(mem, buffers, post_event_buffers, n, time, trace)} :
        /\ mem' = r.mem
        /\ buffers' = r.buffers
        /\ post_event_buffers' = r.pb
        /\ generations' = IF r.buffers[n].count_minus_one = 1
                          THEN [generations EXCEPT ![n] = @ + 1]
                          ELSE generations
        /\ last' = [op |-> "add", n |-> n, arg |-> time, path |-> r.path, run |-> 0]
        /\ UNCHANGED <<cursor, status, boot, cpu, ring, poisson>>

Add(max, spiking) ==
    /\ status = "run"
    /\ calls.add < max
    /\ TransferInTime
    /\ \E n \in spiking :
         \E time \in SpikeTimes(n) : AddStep(n, time, TraceOf(time))
    /\ calls' = [calls EXCEPT !.add = @ + 1]

Scan(max) ==
    /\ status = "run"
    /\ calls.scan < max
    /\ TransferInTime
    /\ \E oldest_time \in 1 .. MaxTime :
         \E r \in {scan_history_traces(mem, buffers, post_event_buffers, oldest_time)} :
             /\ mem' = r.mem
             /\ buffers' = r.buffers
             /\ last' = [op |-> "scan", n |-> 0, arg |-> oldest_time, path |-> "none", run |-> 0]
    /\ calls' = [calls EXCEPT !.scan = @ + 1]
    /\ UNCHANGED <<post_event_buffers, cursor, generations, status, boot, cpu, ring, poisson>>

\* successive compactions counted from the beginning of a sweep
CompactionRun ==
    IF last.op = "compact" /\ last.run > 0 THEN last.run + 1
    ELSE IF cursor.start_addr = 0 THEN 1 ELSE 0

\* a call of compact_post_traces; the transfer of the call before has ended
\* (the calls are a timer period apart)
Compact(max) ==
    /\ status = "run"
    /\ calls.compact < max
    /\ cpu.dma = NoTransfer
    /\ \E complete \in BOOLEAN :
       \E r \in {compact_post_traces(mem, buffers, post_event_buffers, cursor, complete)} :
           /\ mem' = r.mem
           /\ cpu' = [cpu EXCEPT !.dma = r.dma]
           /\ buffers' = r.buffers
           /\ post_event_buffers' = r.pb
           /\ cursor' = r.cursor
           /\ status' = IF r.returns THEN "run" ELSE "spin"
           /\ last' = [op |-> "compact", n |-> 0, arg |-> r.moved,
                       path |-> IF ~r.returns THEN "spin"
                                ELSE IF r.done THEN "done" ELSE "more",
                       run |-> CompactionRun]
    /\ calls' = [calls EXCEPT !.compact = @ + 1]
    /\ UNCHANGED <<generations, boot, ring, poisson>>

\* the DMA controller writes the staged words of the transfer issued by
\* spin1_dma_transfer to their destination
DmaTransferDone ==
    /\ status = "run"
    /\ cpu.dma # NoTransfer
    /\ mem' = DmaRead(mem, cpu.dma.dest, cpu.dma.words)
    /\ cpu' = [cpu EXCEPT !.dma = NoTransfer]
    /\ UNCHANGED <<post_event_buffers, buffers, cursor, generations, status, last, calls,
                   boot, ring, poisson>>

Next ==
    Add(MaxAppends, FirstAndLast) \/ Scan(MaxScans) \/ Compact(MaxCompactions)
        \/ DmaTransferDone

Spec == Init /\ [][Next]_vars

\* the same calls on an arena for N_NEURONS_WIDE neurons
InitWide == \E fill \in UninitVals : InitFor(N_NEURONS_WIDE, fill)

NextWide == Add(MaxAppendsWide, LastTwo) \/ Compact(MaxCompactionsWide) \/ DmaTransferDone

SpecWide == InitWide /\ [][NextWide]_vars

\* the same with the scan
NextWideScan == NextWide \/ Scan(MaxScans)

SpecWideScan == InitWide /\ [][NextWideScan]_vars

\* the same calls without the compactor on an arena for N_NEURONS_SMALL neurons
InitSmall == \E fill \in UninitVals : InitFor(N_NEURONS_SMALL, fill)

NextSmall == Add(MaxAppendsSmall, FirstAndLast) \/ Scan(MaxScans)

SpecSmall == InitSmall /\ [][NextSmall]_vars

\* appends, one scan and several sweeps of the compactor on an arena for
\* N_NEURONS_SWEEP neurons
InitSweep == \E fill \in UninitVals : InitFor(N_NEURONS_SWEEP, fill)

NextSweep ==
    Add(MaxAppendsSweep, FirstAndLast) \/ Scan(MaxScans) \/ Compact(MaxCompactionsSweep)
        \/ DmaTransferDone

SpecSweep == InitSweep /\ [][NextSweep]_vars

\* the same arena, with appends to the last two buffers after the compactions
NextAfterSweep ==
    \/ (calls.compact = 0 /\ Add(MaxAppendsSweep, FirstAndLast))
    \/ (calls.compact = MaxCompactionsSweep /\ Add(MaxAppendsAfterSweep, LastTwo))
    \/ Scan(MaxScans)
    \/ Compact(MaxCompactionsSweep)
    \/ DmaTransferDone

SpecAfterSweep == InitSweep /\ [][NextAfterSweep]_vars

\* before post_events_init_buffers is called
NotBooted ==
    [alloc |-> [r \in Regions |-> FALSE], result |-> "none", reported |-> FALSE,
     header_stray |-> 0, placeholder_stray |-> 0]

InitBoot ==
    /\ post_event_buffers = [start_address |-> 0, n_neurons |-> 0, size |-> 0,
                             end_of_last_buffer |-> 0]
    /\ buffers = << >>
    /\ mem = << >>
    /\ cursor = [start_addr |-> 0, end_addr |-> 0, end_of_last_compaction_address |-> 0]
    /\ generations = << >>
    /\ status = "boot"
    /\ last = [op |-> "boot", n |-> 0, arg |-> 0, path |-> "none", run |-> 0]
    /\ calls = [add |-> 0, scan |-> 0, compact |-> 0]
    /\ boot = NotBooted
    /\ cpu = Idle
    /\ ring = NoBuffer
    /\ poisson = NotLoaded

\* the call of post_events_init_buffers(n).  The program runs on ("run") when
\* the headers are returned; it runs through pointers into unallocated memory
\* ("wild", not followed further) when the data block was not allocated.
InitBuffersFor(counts) ==
    /\ status = "boot"
    /\ \E n \in counts, alloc \in [Regions -> BOOLEAN], fill \in UninitVals :
         \E r \in {post_events_init_buffers(n, alloc, fill)} :
             /\ post_event_buffers' = r.pb
             /\ buffers' = r.buffers
             /\ mem' = r.mem
             /\ generations' = [i \in DOMAIN r.buffers |-> 0]
             /\ boot' = [alloc |-> alloc, result |-> r.result, reported |-> r.reported,
                         header_stray |-> r.header_stray,
                         placeholder_stray |-> r.placeholder_stray]
             /\ status' = IF r.result = "null" THEN "failed"
                          ELSE IF alloc.data THEN "run" ELSE "wild"
             /\ last' = [op |-> "init", n |-> n, arg |-> 0, path |-> r.result, run |-> 0]
    /\ UNCHANGED <<cursor, calls, cpu, ring, poisson>>

InitBuffers == InitBuffersFor(1 .. MaxNeuronsBoot)

NextBoot == InitBuffers \/ Add(MaxAppendsBoot, FirstAndLast)

SpecBoot == InitBoot /\ [][NextBoot]_vars

\* post_events_init_buffers for small and for large populations
InitBuffersLarge ==
    InitBuffersFor((1 .. MaxNeuronsBoot) \cup (MinNeuronsLarge .. MaxNeuronsLarge))

NextBootLarge == InitBuffersLarge

SpecBootLarge == InitBoot /\ [][NextBootLarge]_vars

(***************************************************************************)
(* Calls under interrupts.  post_events_add runs in the spike interrupt    *)
(* handler; a spike interrupt that is not masked is taken between two      *)
(* steps of the call in progress and runs its post_events_add to the end.  *)
(***************************************************************************)
PROFILER_ENTER == "enter"
PROFILER_EXIT == "exit"

\* profiler.h: writes a profiler entry, the interrupt mask stays as it is
profiler_write_entry(tag, masked) == masked

\* profiler.h: interrupts are disabled from the entry written on entering a
\* function to the entry written on leaving it
profiler_write_entry_disable_irq_fiq(tag, masked) == tag = PROFILER_ENTER

\* the profiler calls of compact_post_traces and extend_hist_trace_buffer
CompactEnterMask_PlainEntry(masked) == profiler_write_entry(PROFILER_ENTER, masked)

CompactEnterMask(masked) == profiler_write_entry_disable_irq_fiq(PROFILER_ENTER, masked)
CompactExitMask(masked) == profiler_write_entry_disable_irq_fiq(PROFILER_EXIT, masked)
ExtendEnterMask(masked) == profiler_write_entry(PROFILER_ENTER, masked)
ExtendFailExitMask(masked) == profiler_write_entry_disable_irq_fiq(PROFILER_EXIT, masked)
ExtendExitMask(masked) == profiler_write_entry(PROFILER_EXIT, masked)

InitIrq == \E fill \in UninitVals : InitFor(N_NEURONS_IRQ, fill)

\* a call of post_events_add begins.  It runs to its end in one step unless
\* extend_hist_trace_buffer finds room, which is followed step by step.
AddBegin ==
    /\ status = "run"
    /\ cpu.pc = "idle"
    /\ calls.add < MaxAppendsIrq
    /\ calls' = [calls EXCEPT !.add = @ + 1]
    /\ \E n \in Neurons : \E time \in SpikeTimes(n) :
         IF Saturated(buffers[n]) /\ ~NoSpaceToExtend(post_event_buffers, buffers[n])
         THEN /\ cpu' = [cpu EXCEPT !.pc = "x_copy", !.n = n, !.time = time,
                                    !.moved = FALSE, !.nested = 0,
                                    !.masked = ExtendEnterMask(cpu.masked)]
              /\ UNCHANGED <<post_event_buffers, buffers, mem, cursor, generations,
                             status, last, boot, ring, poisson>>
         ELSE /\ \E r \in {post_events_add(mem, buffers, post_event_buffers, n, time, TraceOf(time))} :
                    /\ mem' = r.mem
                    /\ buffers' = r.buffers
                    /\ post_event_buffers' = r.pb
                    /\ generations' = IF r.buffers[n].count_minus_one = 1
                                      THEN [generations EXCEPT ![n] = @ + 1]
                                      ELSE generations
                    /\ last' = [op |-> "add", n |-> n, arg |-> time, path |-> r.path, run |-> 0]
              /\ cpu' = [cpu EXCEPT !.masked =
                            IF Saturated(buffers[n])
                            THEN ExtendFailExitMask(ExtendEnterMask(cpu.masked))
                            ELSE cpu.masked]
              /\ UNCHANGED <<cursor, status, boot, ring, poisson>>

\* sark_block_copy of the buffer to the frontier, unless it ends there
ExtendCopy ==
    /\ status = "run"
    /\ cpu.pc = "x_copy"
    /\ LET b == buffers[cpu.n]
           moved == ~AtEndOfLastBuffer(post_event_buffers, b)
       IN  /\ mem' = IF moved
                     THEN sark_block_copy(mem, post_event_buffers.end_of_last_buffer,
                                          b.times, b.size)
                     ELSE mem
           /\ cpu' = [cpu EXCEPT !.pc = IF moved THEN "x_repoint" ELSE "x_shift",
                                  !.moved = moved]
    /\ UNCHANGED <<post_event_buffers, buffers, cursor, generations, status, last,
                   calls, boot, ring, poisson>>

\* times and traces are set to the copy
ExtendRepoint ==
    /\ status = "run"
    /\ cpu.pc = "x_repoint"
    /\ LET b == buffers[cpu.n]
           traces_offset == b.traces - b.times
       IN  buffers' = [buffers EXCEPT ![cpu.n] =
                          [b EXCEPT !.times = post_event_buffers.end_of_last_buffer,
                                    !.traces = post_event_buffers.end_of_last_buffer
                                                   + traces_offset]]
    /\ cpu' = [cpu EXCEPT !.pc = "x_shift"]
    /\ UNCHANGED <<post_event_buffers, mem, cursor, generations, status, last,
                   calls, boot, ring, poisson>>

\* the traces move one word up
ExtendShift ==
    /\ status = "run"
    /\ cpu.pc = "x_shift"
    /\ mem' = IF SizeofPostTrace # 0
              THEN MoveTracesDown(mem, buffers[cpu.n].traces, buffers[cpu.n].count_minus_one)
              ELSE mem
    /\ cpu' = [cpu EXCEPT !.pc = "x_update"]
    /\ UNCHANGED <<post_event_buffers, buffers, cursor, generations, status, last,
                   calls, boot, ring, poisson>>

\* traces, size and the frontier are updated; extend_hist_trace_buffer returns
ExtendUpdate ==
    /\ status = "run"
    /\ cpu.pc = "x_update"
    /\ LET b == buffers[cpu.n]
           size2 == U16(b.size + TRACE_SIZE)
       IN  /\ buffers' = [buffers EXCEPT ![cpu.n] =
                             [b EXCEPT !.traces = b.traces + SizeofUint32, !.size = size2]]
           /\ post_event_buffers' =
                  [post_event_buffers EXCEPT !.end_of_last_buffer = b.times + size2]
    /\ cpu' = [cpu EXCEPT !.pc = "x_store", !.masked = ExtendExitMask(cpu.masked)]
    /\ UNCHANGED <<mem, cursor, generations, status, last, calls, boot, ring, poisson>>

\* post_events_add stores the event behind the extended buffer's last one
AddStore ==
    /\ status = "run"
    /\ cpu.pc = "x_store"
    /\ LET b == buffers[cpu.n]
           new_index == b.count_minus_one + 1
           m1 == Store(mem, b.times + SizeofUint32 * new_index, cpu.time)
       IN  /\ mem' = Store(m1, b.traces + SizeofPostTrace * new_index, TraceOf(cpu.time))
           /\ buffers' = [buffers EXCEPT ![cpu.n] = [b EXCEPT !.count_minus_one = new_index]]
           /\ generations' = IF new_index = 1
                             THEN [generations EXCEPT ![cpu.n] = @ + 1]
                             ELSE generations
    /\ last' = [op |-> "add", n |-> cpu.n, arg |-> cpu.time,
                path |-> IF cpu.moved THEN "moved" ELSE "grown", run |-> 0]
    /\ cpu' = [cpu EXCEPT !.pc = "idle", !.nested = 0]
    /\ UNCHANGED <<post_event_buffers, cursor, status, calls, boot, ring, poisson>>

\* a call of compact_post_traces begins: the profiler call, then the region
CompactBegin ==
    /\ status = "run"
    /\ cpu.pc = "idle"
    /\ cpu.dma = NoTransfer
    /\ calls.compact < MaxCompactionsIrq
    /\ calls' = [calls EXCEPT !.compact = @ + 1]
    /\ cursor' = NextRegion(cursor, post_event_buffers)
    /\ cpu' = [cpu EXCEPT !.pc = "c_stage", !.sdram = << >>, !.nested = 0,
                          !.masked = CompactEnterMask(cpu.masked)]
    /\ UNCHANGED <<post_event_buffers, buffers, mem, generations, status, last, boot, ring, poisson>>

\* the loop that copies the region's buffers to SDRAM and sets their pointers
CompactStage ==
    /\ status = "run"
    /\ cpu.pc = "c_stage"
    /\ \E live \in {CopyLiveObjects(mem, buffers, post_event_buffers.n_neurons, 0,
                                    cursor.start_addr, cursor.end_addr,
                                    cursor.end_of_last_compaction_address, << >>)} :
           /\ buffers' = live.buffers
           /\ cpu' = [cpu EXCEPT !.pc = "c_transfer", !.sdram = live.sdram]
    /\ UNCHANGED <<post_event_buffers, mem, cursor, generations, status, last, calls, boot, ring, poisson>>

\* addr[0] = -1, then spin1_dma_transfer hands the staged words to the DMA
\* controller
CompactTransfer ==
    /\ status = "run"
    /\ cpu.pc = "c_transfer"
    /\ LET dest == cursor.end_of_last_compaction_address
           addr == dest + 4 * Len(cpu.sdram) - 4
       IN  mem' = Store(mem, addr, Sentinel)
    /\ cpu' = [cpu EXCEPT !.pc = "c_poll",
                          !.dma = IF cpu.sdram = << >> THEN NoTransfer
                                  ELSE [dest |-> cursor.end_of_last_compaction_address,
                                        words |-> cpu.sdram]]
    /\ UNCHANGED <<post_event_buffers, buffers, cursor, generations, status, last, calls,
                   boot, ring, poisson>>

\* the loop after the transfer is left
CompactPoll ==
    /\ status = "run"
    /\ cpu.pc = "c_poll"
    /\ ~MarkUnchanged(mem, cursor.end_of_last_compaction_address + 4 * Len(cpu.sdram) - 4)
    /\ cpu' = [cpu EXCEPT !.pc = "c_finish"]
    /\ UNCHANGED <<post_event_buffers, buffers, mem, cursor, generations, status, last,
                   calls, boot, ring, poisson>>

\* the end of the call: the compaction address, the end of a sweep, the
\* profiler call
CompactFinish ==
    /\ status = "run"
    /\ cpu.pc = "c_finish"
    /\ LET overall_size == 4 * Len(cpu.sdram)
           cur2 == [cursor EXCEPT !.end_of_last_compaction_address = @ + overall_size]
           done == SweepDone(cur2, post_event_buffers)
       IN  /\ post_event_buffers' =
                  IF done
                  THEN [post_event_buffers EXCEPT
                            !.end_of_last_buffer = cur2.end_of_last_compaction_address]
                  ELSE post_event_buffers
           /\ cursor' = IF done THEN [cur2 EXCEPT !.start_addr = 0] ELSE cur2
           /\ last' = [op |-> "compact", n |-> 0, arg |-> overall_size,
                       path |-> IF done THEN "done" ELSE "more", run |-> CompactionRun]
    /\ cpu' = [cpu EXCEPT !.pc = "idle", !.sdram = << >>, !.nested = 0,
                          !.masked = CompactExitMask(cpu.masked)]
    /\ UNCHANGED <<buffers, mem, generations, status, calls, boot, ring, poisson>>

\* the steps of a relocation by extend_hist_trace_buffer that have begun and
\* not ended, and those of a compaction from its copy to the end of its wait
RelocationInFlight == cpu.moved /\ cpu.pc \in {"x_repoint", "x_shift", "x_update"}
CompactionInFlight == cpu.pc \in {"c_stage", "c_transfer", "c_poll", "c_finish"}

\* a spike interrupt is taken while a call is in progress: its
\* post_events_add runs to the end, then the call goes on.  The run is not
\* followed further ("torn") when the interrupt came inside a compaction or
\* inside the relocation of the buffer it appends to.
SpikeInterrupt ==
    /\ status = "run"
    /\ cpu.pc # "idle"
    /\ ~cpu.masked
    /\ cpu.nested < MaxNestedIrq
    /\ calls.add < MaxAppendsIrq
    /\ calls' = [calls EXCEPT !.add = @ + 1]
    /\ \E n \in Neurons : \E time \in SpikeTimes(n) :
         /\ \E r \in {post_events_add(mem, buffers, post_event_buffers, n, time, TraceOf(time))} :
                /\ mem' = r.mem
                /\ buffers' = r.buffers
                /\ post_event_buffers' = r.pb
                /\ generations' = IF r.buffers[n].count_minus_one = 1
                                  THEN [generations EXCEPT ![n] = @ + 1]
                                  ELSE generations
                /\ last' = [op |-> "add", n |-> n, arg |-> time, path |-> r.path, run |-> 0]
         /\ status' = IF CompactionInFlight \/ (RelocationInFlight /\ n = cpu.n)
                      THEN "torn" ELSE "run"
    /\ cpu' = [cpu EXCEPT !.nested = @ + 1]
    /\ UNCHANGED <<cursor, boot, ring, poisson>>

NextIrq ==
    \/ AddBegin \/ ExtendCopy \/ ExtendRepoint \/ ExtendShift \/ ExtendUpdate \/ AddStore
    \/ CompactBegin \/ CompactStage \/ CompactTransfer \/ CompactPoll \/ CompactFinish
    \/ DmaTransferDone
    \/ SpikeInterrupt

SpecIrq == InitIrq /\ [][NextIrq]_vars

\* the core executes the statements of a compact_post_traces that has begun,
\* and the DMA controller ends a transfer it was given
SpecIrqFair ==
    /\ SpecIrq
    /\ WF_vars(CompactStage) /\ WF_vars(CompactTransfer) /\ WF_vars(CompactPoll)
    /\ WF_vars(CompactFinish) /\ WF_vars(DmaTransferDone)

(***************************************************************************)
(* in_spikes.c: the buffer of incoming spikes.  The k-th spike added is    *)
(* the number k; pending lists the spikes added and not yet returned.      *)
(***************************************************************************)
\* #define next(a): (a) = ((a)+1 == buffer_size) ? 0 : (a)+1
next(a, buffer_size) == IF a + 1 = buffer_size THEN 0 ELSE a + 1

\* ((input > output) ? 0 : buffer_size) + input - output
buffer_diff(r) == (IF r.input > r.output THEN 0 ELSE r.buffer_size) + r.input - r.output

\* assert (r < buffer_size) in buffer_diff
BufferDiffInRange(r) == buffer_diff(r) < r.buffer_size

unallocated(r) == buffer_diff(r)

\* counter_t is unsigned: buffer_size - buffer_diff() - 1 wraps below 0
allocated(r) == r.buffer_size - buffer_diff(r) - 1

non_empty(r) == ULess(0, allocated(r))

non_full(r) == ULess(0, unallocated(r))

\* in_spikes_initialize_spike_buffer(size): the allocation may fail; the
\* words of the buffer are not initialised; checked tells whether the build
\* evaluates the assertions
in_spikes_initialize_spike_buffer(size, allocates, fill, checked) ==
    IF ~allocates
    THEN [NoBuffer EXCEPT !.state = "failed", !.checked = checked, !.op = "init"]
    ELSE [NoBuffer EXCEPT !.state = "ready", !.checked = checked, !.op = "init",
                          !.success = TRUE,
                          !.buffer_size = size,
                          !.buffer = [i \in 0 .. size - 1 |-> fill],
                          !.input = size - 1,
                          !.output = 0]

in_spikes_add_spike(r, spike) ==
    IF r.checked /\ ~BufferDiffInRange(r)
    THEN [r EXCEPT !.state = "aborted", !.op = "add", !.success = FALSE]
    ELSE IF non_full(r)
         THEN [r EXCEPT !.buffer[r.input] = spike,
                        !.input = next(r.input, r.buffer_size),
                        !.added = spike,
                        !.pending = Append(r.pending, spike),
                        !.accepted = Append(r.accepted, spike),
                        !.op = "add", !.success = TRUE]
         ELSE [r EXCEPT !.overflows = @ + 1, !.added = spike,
                        !.op = "add", !.success = FALSE]

\* called with a spike pending: got is the spike written to *spike, want the
\* oldest spike pending
in_spikes_get_next_spike(r) ==
    IF r.checked /\ (~BufferDiffInRange(r) \/ ~non_empty(r))
    THEN [r EXCEPT !.state = "aborted", !.op = "get", !.success = FALSE]
    ELSE LET output == next(r.output, r.buffer_size)
         IN  [r EXCEPT !.output = output,
                       !.got = r.buffer[output],
                       !.want = Head(r.pending),
                       !.pending = Tail(r.pending),
                       !.received = IF non_empty(r)
                                    THEN Append(r.received, r.buffer[output])
                                    ELSE r.received,
                       !.op = "get", !.success = non_empty(r)]

\* (output == 0) ? buffer_size - 1 : output - 1
peek_next(r) == IF r.output = 0 THEN r.buffer_size - 1 ELSE r.output - 1

\* called with a spike pending; when the slot at peek_next() holds spike,
\* output moves there and the spike counts as received
in_spikes_is_next_spike_equal(r, spike) ==
    IF r.checked /\ (~BufferDiffInRange(r) \/ ~non_empty(r))
    THEN [r EXCEPT !.state = "aborted", !.op = "equal", !.success = FALSE]
    ELSE LET peek_output == peek_next(r)
             success == r.buffer[peek_output] = spike
         IN  IF success
             THEN [r EXCEPT !.output = peek_output,
                            !.got = spike,
                            !.want = Head(r.pending),
                            !.pending = Tail(r.pending),
                            !.received = Append(r.received, spike),
                            !.op = "equal", !.success = TRUE]
             ELSE [r EXCEPT !.op = "equal", !.success = FALSE]

InitializeSpikeBuffer ==
    /\ ring.state = "none"
    /\ \E size \in 1 .. MaxRingSize, allocates \in BOOLEAN, fill \in UninitVals,
          checked \in BOOLEAN :
         ring' = in_spikes_initialize_spike_buffer(size, allocates, fill, checked)
    /\ UNCHANGED <<post_event_buffers, buffers, mem, cursor, generations, status,
                   last, calls, boot, cpu, poisson>>

AddSpike ==
    /\ ring.state = "ready"
    /\ ring.added < MaxRingAdds
    /\ ring' = in_spikes_add_spike(ring, ring.added + 1)
    /\ UNCHANGED <<post_event_buffers, buffers, mem, cursor, generations, status,
                   last, calls, boot, cpu, poisson>>

GetNextSpike ==
    /\ ring.state = "ready"
    /\ Len(ring.pending) > 0
    /\ ring.pc = "idle"
    /\ ring' = in_spikes_get_next_spike(ring)
    /\ UNCHANGED <<post_event_buffers, buffers, mem, cursor, generations, status,
                   last, calls, boot, cpu, poisson>>

\* in_spikes_is_next_spike_equal(spike) for a spike added before
IsNextSpikeEqual ==
    /\ ring.state = "ready"
    /\ Len(ring.pending) > 0
    /\ ring.pc = "idle"
    /\ \E spike \in 1 .. ring.added :
         ring' = in_spikes_is_next_spike_equal(ring, spike)
    /\ UNCHANGED <<post_event_buffers, buffers, mem, cursor, generations, status,
                   last, calls, boot, cpu, poisson>>

NextRing == InitializeSpikeBuffer \/ AddSpike \/ GetNextSpike \/ IsNextSpikeEqual

SpecRing == InitBoot /\ [][NextRing]_vars

(***************************************************************************)
(* in_spikes_get_next_spike statement by statement (the consumer), with    *)
(* in_spikes_add_spike run from an interrupt between any two statements    *)
(* (the producer); no interrupt is masked.                                 *)
(***************************************************************************)
\* bool success = non_empty (); assert (success);
GetCheck ==
    /\ ring.state = "ready"
    /\ ring.pc = "idle"
    /\ Len(ring.pending) > 0
    /\ ring' = IF ring.checked /\ (~BufferDiffInRange(ring) \/ ~non_empty(ring))
               THEN [ring EXCEPT !.state = "aborted", !.op = "get", !.success = FALSE]
               ELSE [ring EXCEPT !.pc = "g_checked", !.get_success = non_empty(ring)]
    /\ UNCHANGED <<post_event_buffers, buffers, mem, cursor, generations, status,
                   last, calls, boot, cpu, poisson>>

\* next (output);
GetStep ==
    /\ ring.state = "ready"
    /\ ring.pc = "g_checked"
    /\ ring' = [ring EXCEPT !.pc = "g_stepped",
                            !.output = next(ring.output, ring.buffer_size)]
    /\ UNCHANGED <<post_event_buffers, buffers, mem, cursor, generations, status,
                   last, calls, boot, cpu, poisson>>

\* *spike = buffer [output]; return (success);
GetRead ==
    /\ ring.state = "ready"
    /\ ring.pc = "g_stepped"
    /\ ring' = [ring EXCEPT !.pc = "idle",
                            !.got = ring.buffer[ring.output],
                            !.want = IF Len(ring.pending) > 0 THEN Head(ring.pending) ELSE 0,
                            !.pending = IF Len(ring.pending) > 0 THEN Tail(ring.pending)
                                        ELSE ring.pending,
                            !.received = IF ring.get_success
                                         THEN Append(ring.received, ring.buffer[ring.output])
                                         ELSE ring.received,
                            !.op = "get", !.success = ring.get_success]
    /\ UNCHANGED <<post_event_buffers, buffers, mem, cursor, generations, status,
                   last, calls, boot, cpu, poisson>>

NextRingIrq == InitializeSpikeBuffer \/ AddSpike \/ GetCheck \/ GetStep \/ GetRead

SpecRingIrq == InitBoot /\ [][NextRingIrq]_vars

\* the scenario of the specification: an arena for 4 neurons, events at the
\* times 1, 2, 3, 4, 5 appended to neuron 0; a payload is tagged with its time
\* and carries either sign
ScenarioTraces(time) == {TraceOf(time), 0 - TraceOf(time)}

InitScenario == \E fill \in UninitVals : InitFor(4, fill)

ScenarioAdd ==
    /\ status = "run"
    /\ calls.add < 5
    /\ \E trace \in ScenarioTraces(calls.add + 1) : AddStep(0, calls.add + 1, trace)
    /\ calls' = [calls EXCEPT !.add = @ + 1]

NextScenario == ScenarioAdd

SpecScenario == InitScenario /\ [][NextScenario]_vars

\* every buffer lies in the memory that is modelled
InModelledMemory ==
    \A n \in Neurons :
        /\ W(buffers[n].times) \in DOMAIN mem
        /\ W(buffers[n].times + buffers[n].size) - 1 \in DOMAIN mem \/ buffers[n].size = 0

(***************************************************************************)
(* Properties                                                              *)
(***************************************************************************)
\* the events of buffer n as read through its offsets: <<time, trace>> pairs
EventsOf(m, b) == [i \in 1 .. Count(b) |-> <<TimeAt(m, b, i - 1), TraceAt(m, b, i - 1)>>]

Events(n) == EventsOf(mem, buffers[n])

\* the byte range [times, times + size) of buffer n
BufferStart(n) == buffers[n].times
BufferEnd(n) == buffers[n].times + buffers[n].size

Disjoint(a, b) == BufferEnd(a) <= BufferStart(b) \/ BufferEnd(b) <= BufferStart(a)

\* the highest end address of a buffer
HighestEnd ==
    CHOOSE e \in {BufferEnd(n) : n \in Neurons} : \A n \in Neurons : BufferEnd(n) <= e

FrontierIsHighestEnd == post_event_buffers.end_of_last_buffer = HighestEnd

\* trace[i] is the payload appended with times[i]: a payload is tagged with
\* the time it was appended with
Aligned(n) ==
    \A i \in 0 .. buffers[n].count_minus_one :
        TraceAt(mem, buffers[n], i) = TraceOf(TimeAt(mem, buffers[n], i))

\* C1: in every reachable state the times of every buffer are in ascending
\* order.  Ties are admitted here, because an Append may carry the newest
\* time of its buffer again; the claim asks for strictly ascending times and
\* so implies this.
C1_TimesAscending ==
    \A n \in Neurons :
        \A i \in 1 .. buffers[n].count_minus_one :
            ~ULess(TimeAt(mem, buffers[n], i), TimeAt(mem, buffers[n], i - 1))

C3_NoOverlap ==
    (last.op = "compact" \/ last.path \in {"moved", "grown"}) =>
        \A a, b \in Neurons : a # b => Disjoint(a, b)

WindowCorrect(n, t) ==
    LET b == buffers[n]
        w == post_events_get_window(mem, b, t)
        later == {i \in 0 .. b.count_minus_one : ULess(t, TimeAt(mem, b, i))}
        first == Count(b) - w.num_events
    IN  /\ w.num_events = Cardinality(later)
        /\ later = first .. b.count_minus_one
        /\ w.next_time = b.times + SizeofUint32 * first
        /\ w.next_trace = b.traces + SizeofPostTrace * first
        /\ first >= 1
        /\ w.prev_time = TimeAt(mem, b, first - 1)
        /\ w.prev_trace = TraceAt(mem, b, first - 1)

\* C5: in every reachable state and for every begin time t the window of
\* every buffer has as next events exactly the events with time > t, in
\* ascending order, num_events being their number, and as prev the newest
\* event with time <= t.
C5_WindowCorrect ==
    \A n \in Neurons : \A t \in 0 .. MaxTime : WindowCorrect(n, t)

\* C6: right after scan_history_traces(horizon) no buffer holds an event
\* older than the horizon, the time-0 placeholder at index 0 apart.
C6_ScanRecycles ==
    last.op = "scan" =>
        \A n \in Neurons :
            \A i \in 0 .. buffers[n].count_minus_one :
                ULess(TimeAt(mem, buffers[n], i), last.arg)
                    => (i = 0 /\ TimeAt(mem, buffers[n], i) = 0)

\* C7: in every reachable state every buffer holds at least one event and
\* its first event is the placeholder at time 0.
C7_PlaceholderKept ==
    \A n \in Neurons : Count(buffers[n]) >= 1 /\ TimeAt(mem, buffers[n], 0) = 0

\* the buffers lie back to back from the start of the arena to the frontier
Packed ==
    /\ \A a, b \in Neurons : a # b => Disjoint(a, b)
    /\ \A n \in Neurons :
           /\ \/ BufferStart(n) = post_event_buffers.start_address
              \/ \E o \in Neurons : o # n /\ BufferEnd(o) = BufferStart(n)
           /\ \/ BufferEnd(n) = post_event_buffers.end_of_last_buffer
              \/ \E o \in Neurons : o # n /\ BufferStart(o) = BufferEnd(n)

\* C8: after COMPACTOR_FRAGMENTATION_FACTOR successive compaction calls, the
\* first of them at the beginning of a sweep, the buffers lie back to back
\* from the start of the arena to the frontier.
C8_PackedAfterSweep ==
    (status = "run" /\ last.op = "compact" /\ last.run = COMPACTOR_FRAGMENTATION_FACTOR)
        => Packed

\* C9: an append to a saturated buffer whose Extension fails leaves count
\* and the entry at index 0 alone, drops the event at index 1, moves the
\* events at 2 .. count-1 to 1 .. count-2 and puts the new event at count-1.
C9_ShiftAndDrop ==
    [][\A n \in Neurons :
          (last'.op = "add" /\ last'.path = "shift" /\ last'.n = n) =>
              LET count == Count(buffers[n])
                  old == EventsOf(mem, buffers[n])
                  new == EventsOf(mem', buffers'[n])
              IN  /\ Count(buffers'[n]) = count
                  /\ new[1] = old[1]
                  /\ \A i \in 2 .. count - 1 : new[i] = old[i + 1]
                  /\ new[count] = <<last'.arg, TraceOf(last'.arg)>>]_vars

\* the events a window hands out as next
NextEvents(w) ==
    [k \in 1 .. w.num_events |->
        <<Load(mem, w.next_time + SizeofUint32 * (k - 1)),
          Load(mem, w.next_trace + SizeofPostTrace * (k - 1))>>]

\* the absolute value of a payload of the scenario is the tag of its time
Tag(trace) == IF trace < 0 THEN 0 - trace ELSE trace

\* C10: in the scenario no append takes the shift-and-drop path, the 5th
\* append grows the buffer through Extension, the buffer then holds the
\* times 0, 1, 2, 3, 4, 5 with their payloads, and the window of neuron 0
\* from time 2 has prev_time 2 and the events at 3, 4, 5 as next.
C10_Scenario ==
    /\ last.path # "shift"
    /\ calls.add = 5 =>
           /\ last.path \in {"moved", "grown"}
           /\ Times(mem, buffers[0]) = <<0, 1, 2, 3, 4, 5>>
           /\ \A i \in 1 .. 6 : Tag(Traces(mem, buffers[0])[i]) = TraceOf(i - 1)
           /\ LET w == post_events_get_window(mem, buffers[0], 2)
              IN  /\ w.prev_time = 2
                  /\ Tag(w.prev_trace) = TraceOf(2)
                  /\ w.num_events = 3
                  /\ NextEvents(w) = [k \in 1 .. 3 |-> Events(0)[k + 3]]
                  /\ [k \in 1 .. 3 |-> NextEvents(w)[k][1]] = <<3, 4, 5>>

\* the five appends are done
C10_Witness ==
    /\ calls.add = 5
    /\ last.op = "add" /\ last.arg = 5
    /\ buffers[0].count_minus_one = 5

\* the end of the arena
ArenaEnd == post_event_buffers.start_address + post_event_buffers.size

\* the step is post_events_add on neuron n, and Extension was called in it
ExtensionCalled(n) ==
    /\ last'.op = "add" /\ last'.n = n
    /\ calls'.add = calls.add + 1
    /\ Saturated(buffers[n])

\* C11: Extension on the frontier owner, one more stride fitting between the
\* frontier and the end of the arena, succeeds without relocating: times is
\* unchanged, size grows by one stride and the frontier advances by one stride.
C11_OwnerGrowsInPlace ==
    [][\A n \in Neurons :
          (/\ ExtensionCalled(n)
           /\ AtEndOfLastBuffer(post_event_buffers, buffers[n])
           /\ post_event_buffers.end_of_last_buffer + TRACE_SIZE <= ArenaEnd)
          => /\ last'.path = "grown"
             /\ buffers'[n].times = buffers[n].times
             /\ buffers'[n].size = buffers[n].size + TRACE_SIZE
             /\ post_event_buffers'.end_of_last_buffer
                    = post_event_buffers.end_of_last_buffer + TRACE_SIZE]_vars

\* C12: Extension on a buffer that is not the frontier owner fails if and
\* only if frontier + size + stride is greater than the end of the arena; it
\* succeeds when the relocated buffer would end exactly at the end of the arena.
C12_NonOwnerFailsOnlyBeyondEnd ==
    [][\A n \in Neurons :
          (ExtensionCalled(n) /\ ~AtEndOfLastBuffer(post_event_buffers, buffers[n]))
          => ((last'.path = "shift")
                 <=> (post_event_buffers.end_of_last_buffer + buffers[n].size + TRACE_SIZE
                         > ArenaEnd))]_vars

\* C13: in every reachable state every buffer lies between the start of the
\* arena and the frontier, and the frontier is not behind the end of the
\* arena: no byte of a buffer is in the free tail.
C13_BuffersBelowFrontier ==
    /\ post_event_buffers.end_of_last_buffer <= ArenaEnd
    /\ \A n \in Neurons :
           /\ post_event_buffers.start_address <= BufferStart(n)
           /\ BufferEnd(n) <= post_event_buffers.end_of_last_buffer

\* C14: in every reachable state the size of every buffer is a multiple of
\* the event stride, and size / stride is at least the number of its events.
C14_SizeBoundsCount ==
    \A n \in Neurons :
        /\ buffers[n].size % TRACE_SIZE = 0
        /\ buffers[n].size \div TRACE_SIZE >= Count(buffers[n])

\* a compaction has just run, after a scan that shrank a buffer and an
\* Extension that grew one, and a buffer is full
C14_Witness ==
    /\ last.op = "compact" /\ calls.scan > 0
    /\ \E n \in Neurons : buffers[n].size < MAX_POST_SYNAPTIC_EVENTS * TRACE_SIZE
    /\ \E n \in Neurons : buffers[n].size > MAX_POST_SYNAPTIC_EVENTS * TRACE_SIZE
    /\ \E n \in Neurons : buffers[n].size = Count(buffers[n]) * TRACE_SIZE

\* C15: right after an initialisation that returned the headers, every buffer
\* holds one event, its size is MAX_POST_SYNAPTIC_EVENTS strides, buffer i
\* starts MAX_POST_SYNAPTIC_EVENTS * i strides above start_address, the
\* frontier is the end of the last buffer, and, the data block being
\* allocated, the one event is the placeholder: time 0 with the initial trace.
C15_InitialBuffers ==
    (last.op = "init" /\ boot.result = "ok") =>
        /\ \A n \in Neurons :
            /\ Count(buffers[n]) = 1
            /\ buffers[n].size = MAX_POST_SYNAPTIC_EVENTS * TRACE_SIZE
            /\ BufferStart(n) = post_event_buffers.start_address
                                    + n * MAX_POST_SYNAPTIC_EVENTS * TRACE_SIZE
            /\ boot.alloc.data => Events(n) = << <<0, InitialTrace>> >>
        /\ post_event_buffers.end_of_last_buffer
               = BufferEnd(post_event_buffers.n_neurons - 1)

C15_Witness ==
    /\ last.op = "init"
    /\ boot.result = "ok"
    /\ \A r \in Regions : boot.alloc[r]
    /\ post_event_buffers.n_neurons = MaxNeuronsBoot
    /\ \E w \in DOMAIN mem : mem[w] = Sentinel

\* C19: an initialisation in which an allocation failed has reported the
\* error and returned NULL, and has written no placeholder through a pointer
\* into unallocated memory.
C19_FailureReported ==
    (last.op = "init" /\ \E r \in Regions : ~boot.alloc[r]) =>
        /\ boot.result = "null"
        /\ boot.reported
        /\ boot.placeholder_stray = 0

\* C19, the staging region alone: its failure is reported
C19_StagingFailureReported ==
    (last.op = "init" /\ ~boot.alloc["sdram"]) => boot.reported

\* the times of the next events of a window
NextTimes(w) == [k \in 1 .. w.num_events |-> Load(mem, w.next_time + SizeofUint32 * (k - 1))]

\* the times of buffer n's events with begin_time < time <= end_time, in the
\* buffer's order
TimesWithin(n, begin_time, end_time) ==
    LET within(ev) == ULess(begin_time, ev[1]) /\ ~ULess(end_time, ev[1])
        chosen == SelectSeq(Events(n), within)
    IN  [k \in 1 .. Len(chosen) |-> chosen[k][1]]

\* C16: for every buffer and every begin_time <= end_time, the next events of
\* post_events_get_window_delayed are the buffer's events with
\* begin_time < time <= end_time
C16_DelayedWindowExact ==
    \A n \in Neurons : \A begin_time \in 0 .. MaxTime : \A end_time \in begin_time .. MaxTime :
        NextTimes(post_events_get_window_delayed(mem, buffers[n], begin_time, end_time))
            = TimesWithin(n, begin_time, end_time)

\* C16, the last sentence alone: no next event is later than end_time
C16_NoFutureEvent ==
    \A n \in Neurons : \A begin_time \in 0 .. MaxTime : \A end_time \in begin_time .. MaxTime :
        LET times == NextTimes(post_events_get_window_delayed(mem, buffers[n], begin_time, end_time))
        IN  \A k \in DOMAIN times : ~ULess(end_time, times[k])

\* a post_events_add begins in this step (from AddBegin or SpikeInterrupt)
AppendBegins == calls'.add = calls.add + 1

C18_NoAppendInsideRelocation ==
    [][\A n \in Neurons :
          (AppendBegins /\ last'.op = "add" /\ last'.n = n /\ RelocationInFlight)
              => cpu.n # n]_vars

\* C20: every successful in_spikes_get_next_spike returns the oldest spike
\* that was added and not yet returned
C20_Fifo ==
    (ring.op = "get" /\ ring.success) => ring.got = ring.want

\* C20, none lost: a spike pending is still in the buffer
C20_NoneLost ==
    ring.state = "ready" =>
        \A k \in 1 .. Len(ring.pending) :
            \E i \in 0 .. ring.buffer_size - 1 : ring.buffer[i] = ring.pending[k]

\* C21: in_spikes_add_spike returns true and stores the spike when fewer than
\* buffer_size - 1 spikes are buffered; otherwise it returns false, adds one
\* to overflows and leaves the buffer and both indices as they were
C21_AddRefusesWhenFull ==
    [][(ring.state = "ready" /\ ring'.state = "ready" /\ ring'.op = "add"
            /\ ring'.added = ring.added + 1)
        => IF Len(ring.pending) < ring.buffer_size - 1
           THEN /\ ring'.success
                /\ ring'.pending = Append(ring.pending, ring'.added)
                /\ ring'.buffer[ring.input] = ring'.added
           ELSE /\ ~ring'.success
                /\ ring'.overflows = ring.overflows + 1
                /\ ring'.pending = ring.pending
                /\ ring'.buffer = ring.buffer
                /\ ring'.input = ring.input
                /\ ring'.output = ring.output]_vars

\* C21, the last sentence: the buffer never holds more than buffer_size - 1
\* spikes
C21_AtMostSizeMinusOne ==
    ring.state = "ready" => Len(ring.pending) <= ring.buffer_size - 1

\* C22: in every state of the buffer, 0 <= buffer_diff() < buffer_size
C22_BufferDiffInRange ==
    ring.state = "ready" => (0 <= buffer_diff(ring) /\ buffer_diff(ring) < ring.buffer_size)

\* C23: with the producer interrupting the consumer between any two of its
\* statements, the spikes the consumer has received are the first of the
\* spikes successfully added, in the order they were added: none that was
\* not added, none twice, none missed
C23_ReceivedAsAdded ==
    /\ Len(ring.received) <= Len(ring.accepted)
    /\ \A i \in 1 .. Len(ring.received) :
           i <= Len(ring.accepted) => ring.received[i] = ring.accepted[i]

\* a call of post_events_add on buffer n is made in this step
Appended(n) == calls'.add = calls.add + 1 /\ last'.op = "add" /\ last'.n = n

\* C24: an append takes the shift-and-drop path only when the buffer is
\* saturated and Extension fails; every other append leaves the buffer with
\* its previous events in their order, followed by the new event, and with
\* count increased by one
C24_AppendKeepsEvents ==
    [][\A n \in Neurons :
          Appended(n) =>
              IF last'.path = "shift"
              THEN Saturated(buffers[n]) /\ NoSpaceToExtend(post_event_buffers, buffers[n])
              ELSE /\ Count(buffers'[n]) = Count(buffers[n]) + 1
                   /\ EventsOf(mem', buffers'[n])
                          = Append(EventsOf(mem, buffers[n]),
                                   <<last'.arg, TraceOf(last'.arg)>>)]_vars

\* C25: a call of compact_post_traces leaves every buffer's count, size and
\* events (times and traces, read through its pointers) as they were
C25_CompactionKeepsEvents ==
    [][(calls'.compact = calls.compact + 1) =>
          \A n \in Neurons :
              /\ buffers'[n].count_minus_one = buffers[n].count_minus_one
              /\ buffers'[n].size = buffers[n].size
              /\ EventsOf(mem', buffers'[n]) = EventsOf(mem, buffers[n])]_vars

\* buffer n lies in the region the next call of compact_post_traces works on
Processed(n) ==
    InRegion(buffers[n], NextRegion(cursor, post_event_buffers).start_addr,
             NextRegion(cursor, post_event_buffers).end_addr)

\* buffer n lies in the part of the arena the calls of the sweep in progress
\* have packed
AlreadyRelocated(n) ==
    cursor.start_addr # 0 /\ buffers[n].times < cursor.end_of_last_compaction_address

\* C26: in a run of compactions that began with a sweep and that no other
\* call interrupted, a call relocates no buffer that an earlier call of the
\* sweep relocated, and it moves no buffer to a higher address
C26_RelocatedOnceNotUpwards ==
    [][(calls'.compact = calls.compact + 1 /\ CompactionRun > 0) =>
          \A n \in Neurons :
              Processed(n) => /\ ~AlreadyRelocated(n)
                              /\ buffers'[n].times <= buffers[n].times]_vars

C28_ProceedsAfterTransfer == cpu.dma # NoTransfer => cpu.pc = "c_poll"

\* C29: a call of compact_post_traces works on one slice.  The first call of
\* a sweep takes [start_address, start_address + size / F] and packs from
\* start_address on; a later call takes the slice before moved on by
\* size / F at both ends and packs from where the call before ended.  The
\* sweep ends, the next call starting again at start_address and
\* end_of_last_buffer becoming the end of the packed block, exactly in the
\* call whose slice end is at or above end_of_last_buffer.
C29_OneSlicePerCall ==
    [][(calls'.compact = calls.compact + 1 /\ status' = "run") =>
          LET step == post_event_buffers.size \div COMPACTOR_FRAGMENTATION_FACTOR
              first == cursor.start_addr = 0
              slice_start == IF first THEN post_event_buffers.start_address
                             ELSE cursor.start_addr + step
              slice_end == IF first THEN post_event_buffers.start_address + step
                           ELSE cursor.end_addr + step
              write_frontier == IF first THEN post_event_buffers.start_address
                                ELSE cursor.end_of_last_compaction_address
              ends == slice_end >= post_event_buffers.end_of_last_buffer
          IN  /\ cursor'.end_addr = slice_end
              /\ cursor'.end_of_last_compaction_address = write_frontier + last'.arg
              /\ cursor'.start_addr = IF ends THEN 0 ELSE slice_start
              /\ post_event_buffers'.end_of_last_buffer =
                     IF ends THEN cursor'.end_of_last_compaction_address
                     ELSE post_event_buffers.end_of_last_buffer
              /\ \A n \in Neurons :
                     buffers'[n] # buffers[n] =>
                         /\ buffers[n].times >= slice_start
                         /\ buffers[n].times <= slice_end
                         /\ buffers'[n].times >= write_frontier
                         /\ buffers'[n].times < cursor'.end_of_last_compaction_address]_vars

\* the second call of a second sweep has returned
C29_Witness ==
    /\ calls.compact = MaxCompactionsSweep
    /\ last.op = "compact" /\ last.path = "more" /\ last.run = MaxCompactionsSweep
    /\ cursor.start_addr = post_event_buffers.start_address
                               + post_event_buffers.size \div COMPACTOR_FRAGMENTATION_FACTOR

\* the buffer has room for one more event: count < size / stride
HasSlack(b) == Count(b) < b.size \div TRACE_SIZE

\* C30: a post_events_add to a buffer with slack calls no Extension: the
\* buffer keeps its times, traces and size and counts one event more, the
\* other buffers (their headers and their events) and the arena are as
\* before, and the time and the trace are stored at the index the count had
C30_FastPath ==
    [][\A n \in Neurons :
          (Appended(n) /\ HasSlack(buffers[n])) =>
              /\ last'.path = "fast"
              /\ buffers'[n] = [buffers[n] EXCEPT !.count_minus_one = @ + 1]
              /\ \A o \in Neurons \ {n} :
                     /\ buffers'[o] = buffers[o]
                     /\ EventsOf(mem', buffers'[o]) = EventsOf(mem, buffers[o])
              /\ post_event_buffers' = post_event_buffers
              /\ TimeAt(mem', buffers[n], Count(buffers[n])) = last'.arg
              /\ TraceAt(mem', buffers[n], Count(buffers[n])) = TraceOf(last'.arg)
              /\ EventsOf(mem', buffers'[n])
                     = Append(EventsOf(mem, buffers[n]), <<last'.arg, TraceOf(last'.arg)>>)]_vars

\* a call of scan_history_traces is made in this step
Scanned == calls'.scan = calls.scan + 1 /\ last'.op = "scan"

\* C31: a call of scan_history_traces leaves the arena header alone and, for
\* every buffer, the new byte range lies in the old one, the events kept are
\* the old events from the first one kept on, each with its own trace, and a
\* buffer that holds no event older than oldest_time is left as it was
C31_ScanShrinksInPlace ==
    [][Scanned =>
          /\ post_event_buffers' = post_event_buffers
          /\ \A n \in Neurons :
                LET b == buffers[n]
                    dropped == Count(b) - Count(buffers'[n])
                IN  /\ buffers'[n].times >= b.times
                    /\ buffers'[n].times + buffers'[n].size <= b.times + b.size
                    /\ dropped >= 0
                    /\ EventsOf(mem', buffers'[n])
                           = SubSeq(EventsOf(mem, b), dropped + 1, Count(b))
                    /\ (\A i \in 0 .. b.count_minus_one :
                            ~ULess(TimeAt(mem, b, i), last'.arg))
                           => buffers'[n] = b]_vars

\* the events a sequence of windows has as prev
PrevEvents(windows) == [k \in DOMAIN windows |-> <<windows[k].prev_time, windows[k].prev_trace>>]

\* the k-th window of the loop is the window before it moved on by one event
NextStep(m, before, after) ==
    /\ after.prev_time = Load(m, before.next_time)
    /\ after.prev_trace = Load(m, before.next_trace)
    /\ after.next_time = before.next_time + SizeofUint32
    /\ after.next_trace = before.next_trace + SizeofPostTrace
    /\ after.num_events = before.num_events - 1

\* C32: in every reachable state, for every buffer and begin time, each
\* post_events_next of the loop over the window of post_events_get_window
\* gives the former first next event as prev, both cursors one event on and
\* one event less; the loop makes num_events calls, ends with num_events = 0
\* and visits the last num_events events of the buffer in the order of their
\* times
C32_NextVisitsWindow ==
    \A n \in Neurons : \A t \in 0 .. MaxTime :
        LET b == buffers[n]
            w == post_events_get_window(mem, b, t)
            ws == NextWindows(mem, w)
            visited == PrevEvents(ws)
        IN  /\ Len(ws) = w.num_events
            /\ \A k \in DOMAIN ws : NextStep(mem, IF k = 1 THEN w ELSE ws[k - 1], ws[k])
            /\ w.num_events > 0 => ws[Len(ws)].num_events = 0
            /\ visited = SubSeq(EventsOf(mem, b), Count(b) - w.num_events + 1, Count(b))
            /\ \A k \in 1 .. Len(visited) - 1 : ~ULess(visited[k + 1][1], visited[k][1])

\* C33: in the window of post_events_get_window_delayed next_trace stands at
\* the index next_time stands at, and prev_time and prev_trace are the time
\* and the trace of the event before it
C33_DelayedCursorsAligned ==
    \A n \in Neurons : \A begin_time \in 0 .. MaxTime : \A end_time \in begin_time .. MaxTime :
        LET b == buffers[n]
            w == post_events_get_window_delayed(mem, b, begin_time, end_time)
            index == (w.next_time - b.times) \div SizeofUint32
        IN  /\ w.next_trace = b.traces + SizeofPostTrace * index
            /\ w.prev_time = TimeAt(mem, b, index - 1)
            /\ w.prev_trace = TraceAt(mem, b, index - 1)

\* C34: no buffer is put in the generation index more than once
C34_RecordedAtMostOnce == \A n \in Neurons : generations[n] <= 1

\* C35: when post_events_init_buffers returns the headers for n neurons, the
\* size recorded for the arena is n * (MAX_POST_SYNAPTIC_EVENTS +
\* EXTRA_HISTORY_TRACE_SPACE_FACTOR) * TRACE_SIZE and the size recorded for
\* every buffer is MAX_POST_SYNAPTIC_EVENTS * TRACE_SIZE
C35_SizesNotWrapped ==
    boot.result = "ok" =>
        /\ post_event_buffers.size =
               post_event_buffers.n_neurons
                   * (MAX_POST_SYNAPTIC_EVENTS + EXTRA_HISTORY_TRACE_SPACE_FACTOR) * TRACE_SIZE
        /\ \A i \in DOMAIN buffers : buffers[i].size = MAX_POST_SYNAPTIC_EVENTS * TRACE_SIZE

\* in_spikes_n_spikes_in_buffer: return (allocated ())
in_spikes_n_spikes_in_buffer(r) == allocated(r)

\* C36: on an initialised buffer of incoming spikes,
\* in_spikes_n_spikes_in_buffer() is the number of spikes added with success
\* and not yet removed (0 right after the initialisation), and non_empty()
\* holds exactly when that number is greater than 0
C36_CountIsAddsMinusRemoved ==
    ring.state = "ready" =>
        /\ in_spikes_n_spikes_in_buffer(ring) = Len(ring.pending)
        /\ non_empty(ring) <=> Len(ring.pending) > 0

\* next (output); *spike = buffer [output]: the spike the next
\* in_spikes_get_next_spike writes to *spike
NextSpike(r) == r.buffer[next(r.output, r.buffer_size)]

\* C37: a call in_spikes_is_next_spike_equal(spike) with a spike pending
\* returns true exactly when the next in_spikes_get_next_spike would return
\* spike; when it returns true the count of buffered spikes drops by one and
\* the following get returns the spike after it, when it returns false the
\* indices and the contents are as before
C37_EqualAgreesWithGet ==
    [][\A spike \in 1 .. ring.added :
          (/\ ring.state = "ready" /\ Len(ring.pending) > 0
           /\ ring' = in_spikes_is_next_spike_equal(ring, spike)
           /\ ring'.op = "equal" /\ ring'.state = "ready")
          => /\ ring'.success <=> NextSpike(ring) = spike
             /\ ring'.success =>
                  /\ in_spikes_n_spikes_in_buffer(ring')
                        = in_spikes_n_spikes_in_buffer(ring) - 1
                  /\ NextSpike(ring') = NextSpike([ring EXCEPT !.output =
                                                      next(ring.output, ring.buffer_size)])
             /\ ~ring'.success =>
                  /\ ring'.input = ring.input /\ ring'.output = ring.output
                  /\ ring'.buffer = ring.buffer]_vars

(***************************************************************************)
(* spike_source_poisson.c: the two timer callbacks.  Both are queued       *)
(* callbacks (priorities TIMER_2 = 1, TIMER = 2), so one runs to its end   *)
(* before the other starts.  The pointers next_slow_spike_source and       *)
(* next_fast_spike_source are kept as indices into their arrays; the slow  *)
(* source i has neuron_id i, the fast source j has neuron_id               *)
(* num_slow_spike_sources + j.  Whether a visited source spikes (its       *)
(* time window, time_to_spike_ticks, the random number of spikes) is a     *)
(* choice.                                                                 *)
(***************************************************************************)
\* what a read of neuron_id behind the end of an array may give
StrayNeuron == Sentinel

\* c_main up to simulation_run(): the source counts are read from the
\* parameters, time = UINT32_MAX
c_main(num_slow, num_fast, simulation_ticks) ==
    [NotLoaded EXCEPT !.state = "run",
                      !.num_slow_spike_sources = num_slow,
                      !.num_fast_spike_sources = num_fast,
                      !.simulation_ticks = simulation_ticks,
                      !.time = Sentinel,
                      !.op = "c_main"]

\* spin1_disable_timer_2(); timer_running = false; out_spikes_record; out_spikes_reset
finish_sources(p) ==
    [p EXCEPT !.timer_2_enabled = FALSE,
              !.timer_running = FALSE,
              !.out_spikes = {},
              !.finished = @ + 1]

\* source_index -= 1, in a uint32_t kept as a signed word
SourcesLeft(source_index) == source_index - 1

\* timer2_callback; spikes: the source visited is active and spikes
timer2_callback(p, spikes) ==
    IF ~p.timer_running
    THEN [p EXCEPT !.n_timer2_reent = @ + 1, !.op = "timer2_skip"]
    ELSE IF p.on_slow_sources
    THEN LET i == p.next_slow_spike_source
             neuron_id == IF i < p.num_slow_spike_sources THEN i ELSE StrayNeuron
             p1 == [p EXCEPT !.next_slow_spike_source = i + 1,
                             !.visited = Append(@, <<"slow", i>>),
                             !.out_spikes = IF spikes THEN @ \cup {neuron_id} ELSE @,
                             !.source_index = SourcesLeft(@),
                             !.op = "timer2"]
         IN  IF p1.source_index = 0
             THEN IF p.num_fast_spike_sources > 0
                  THEN [p1 EXCEPT !.on_slow_sources = FALSE,
                                  !.source_index = p.num_fast_spike_sources]
                  ELSE finish_sources([p1 EXCEPT !.on_slow_sources = FALSE])
             ELSE p1
    ELSE LET j == p.next_fast_spike_source
             neuron_id == IF j < p.num_fast_spike_sources
                          THEN p.num_slow_spike_sources + j ELSE StrayNeuron
             p1 == [p EXCEPT !.next_fast_spike_source = j + 1,
                             !.visited = Append(@, <<"fast", j>>),
                             !.out_spikes = IF spikes THEN @ \cup {neuron_id} ELSE @,
                             !.source_index = SourcesLeft(@),
                             !.op = "timer2"]
         IN  IF p1.source_index = 0 THEN finish_sources(p1) ELSE p1

\* timer_callback; infinite_run: the run has no fixed number of ticks
timer_callback(p, infinite_run) ==
    IF p.timer_running
    THEN [p EXCEPT !.n_timer1_reent = @ + 1, !.op = "timer_skip"]
    ELSE LET time == p.time + 1
         IN  IF ~infinite_run /\ ~ULess(time, p.simulation_ticks)
             THEN [p EXCEPT !.time = time, !.state = "paused", !.op = "timer_pause"]
             ELSE [p EXCEPT !.time = time,
                            !.timer_running = TRUE,
                            !.on_slow_sources = p.num_slow_spike_sources > 0,
                            !.source_index = IF p.num_slow_spike_sources > 0
                                             THEN p.num_slow_spike_sources
                                             ELSE p.num_fast_spike_sources,
                            !.next_slow_spike_source = 0,
                            !.next_fast_spike_source = 0,
                            !.timer_2_enabled = TRUE,
                            !.visited = << >>,
                            !.finished = 0,
                            !.op = "timer"]

NotPoisson ==
    UNCHANGED <<post_event_buffers, buffers, mem, cursor, generations, status, last, calls,
                boot, cpu, ring>>

CMain ==
    /\ poisson.state = "none"
    /\ \E num_slow \in 0 .. MaxSlowSources, num_fast \in 0 .. MaxFastSources :
         poisson' = c_main(num_slow, num_fast, MaxTicks)
    /\ NotPoisson

\* the timer tick; a tick that comes while the sources are being processed
\* is skipped
TimerCallback ==
    /\ poisson.state = "run"
    /\ ULess(poisson.time + 1, MaxTicks + 1)
    /\ poisson.n_timer1_reent < MaxReent
    /\ \E infinite_run \in BOOLEAN : poisson' = timer_callback(poisson, infinite_run)
    /\ NotPoisson

\* the tick of timer 2, or one that was queued before timer 2 was disabled
Timer2Callback ==
    /\ poisson.state = "run"
    /\ Len(poisson.visited) < MaxTimer2Calls
    /\ poisson.n_timer2_reent < MaxReent
    /\ \E spikes \in BOOLEAN : poisson' = timer2_callback(poisson, spikes)
    /\ NotPoisson

NextPoisson == CMain \/ TimerCallback \/ Timer2Callback

SpecPoisson == InitBoot /\ [][NextPoisson]_vars

\* the sources in the order of a tick: the slow ones, then the fast ones
SourceOrder(p) ==
    [k \in 1 .. p.num_slow_spike_sources + p.num_fast_spike_sources |->
        IF k <= p.num_slow_spike_sources THEN <<"slow", k - 1>>
        ELSE <<"fast", k - 1 - p.num_slow_spike_sources>>]

\* the sources are visited in order, none twice and none behind its array,
\* and the tick ends with the last one (with no source at all: with the
\* first call of timer2_callback at the latest)
TickInOrder(p) ==
    LET n == p.num_slow_spike_sources + p.num_fast_spike_sources
    IN  /\ p.timer_running =>
              /\ Len(p.visited) < n \/ (n = 0 /\ Len(p.visited) = 0)
              /\ p.visited = SubSeq(SourceOrder(p), 1, Len(p.visited))
        /\ ~p.timer_running /\ p.finished > 0 =>
              /\ p.visited = SourceOrder(p)
              /\ p.finished = 1
        /\ p.next_slow_spike_source <= p.num_slow_spike_sources
        /\ p.next_fast_spike_source <= p.num_fast_spike_sources

\* C38: once timer_callback has started a tick, the calls of timer2_callback
\* visit each slow source, then each fast source, once and in order, no
\* pointer goes behind its array, _finish_sources runs with the call that
\* visits the last source and clears timer_running, whatever the numbers of
\* slow and fast sources; and time changes only in a timer_callback that
\* finds timer_running false
C38_TickVisitsEachSourceOnce ==
    /\ [](poisson.state = "run" => TickInOrder(poisson))
    /\ [][poisson'.time # poisson.time /\ poisson.state # "none"
            => ~poisson.timer_running /\ poisson'.op \in {"timer", "timer_pause"}]_vars

====
